---- MODULE Spec2Model ----
(***************************************************************************)
(* A model of djangoseo/base.py: the signal callbacks that keep the        *)
(* model-instance metadata rows and the redirects in step with the tracked *)
(* objects, get_linked_metadata, and FormattedMetadata (the resolution     *)
(* chain over the backend instances, its memo and its cache).              *)
(*                                                                         *)
(* The metadata rows and the Redirect rows are two tables that share       *)
(* nothing but the tracked objects they are computed from, so they are     *)
(* explored under two specifications over the same actions: Spec           *)
(* (SEO_USE_REDIRECTS off) and SpecRedirects (SEO_USE_REDIRECTS on, no     *)
(* 'modelinstance' backend).  SpecDistinct is Spec with the saves that     *)
(* keep the URLs of the tracked objects pairwise distinct.                 *)
(* FormattedMetadata reads the backend instances and the cache only; it    *)
(* is explored under SpecFmt (no cache) and SpecCache (with the cache).    *)
(*                                                                         *)
(* The backends (the managers' get_instances, the instances' own           *)
(* _resolve_value, the tables' constraints) are outside base.py.           *)
(* get_instances is taken to return the rows that have the path, as the    *)
(* comment at its call says, from tables without unique constraints; what  *)
(* an instance answers for a name is an input.                             *)
(***************************************************************************)
EXTENDS Integers, Sequences, FiniteSets, Bags, TLC

\* ---------------------------------------------------------------- bounds
\* URL paths are numbers.  Where objects may share a URL the paths are
\* 1..NumPaths; where the URLs are kept pairwise distinct they are
\* 1..NumDistinctPaths, one for each tracked object that has a URL.
NumPaths == 2
Paths == 1..NumPaths

NumDistinctPaths == 3
DistinctPaths == 1..NumDistinctPaths

\* The tracked models.  'nopath' does not define get_absolute_url.
ContentTypes == {"page", "product", "nopath"}

\* The tracked objects, as (content type, primary key).  Two models share a
\* primary key and two objects share a model.
Objects == {<<"page", 1>>, <<"page", 2>>, <<"product", 1>>, <<"nopath", 1>>}

HasGetAbsoluteUrl(ct) == ct # "nopath"

\* What a save can store in an object: the field its URL is computed from.
\* A model without get_absolute_url has no field the callbacks read.
FieldValues(ct) == IF HasGetAbsoluteUrl(ct) THEN Paths ELSE {1}

DistinctFieldValues(ct) == IF HasGetAbsoluteUrl(ct) THEN DistinctPaths ELSE {1}

CurrentSite == "current"

VARIABLES
    settings,      \* [SEO_USE_REDIRECTS, backends]: fixed at start-up
    db,            \* the tracked objects stored: object -> its URL field
    mdstore,       \* the model-instance metadata rows, in id order
    modelmd,       \* the content types that have a model-level metadata row
    redirects,     \* the Redirect rows, a bag
    handledSaves,  \* history: the stored objects with a URL whose latest
                   \* post_save callback returned at the handled mark
    last           \* history: the latest operation and what it returned

VARIABLES
    use_cache,     \* metadata._meta.use_cache
    ivals,         \* what instance._resolve_value(name) returns, per instance
    fm,            \* the FormattedMetadata: __instances_original, __instances_cache
    cache          \* django.core.cache: key -> value, for the keys that are set

syncVars == <<settings, db, mdstore, modelmd, redirects, handledSaves>>

fmtVars == <<use_cache, ivals, fm, cache>>

vars == <<syncVars, fmtVars, last>>

\* ------------------------------------------------------- the ORM, as used
\* objects.filter(_content_type=..., _object_id=...): the positions that match.
RowsOf(store, ct, pk) ==
    {i \in 1..Len(store) :
        store[i]._content_type = ct /\ store[i]._object_id = pk}

\* objects.get_instances(path, ...) of the model-instance backend: the rows
\* with this path, in id order.
get_instances(store, path) ==
    LET F[i \in 0..Len(store)] ==
            IF i = 0 THEN <<>>
            ELSE IF store[i]._path = path THEN Append(F[i - 1], i) ELSE F[i - 1]
    IN  F[Len(store)]

\* GenericForeignKey: md._content_object is None when the object is not stored.
ContentObjectIsNone(objs, md) ==
    <<md._content_type, md._object_id>> \notin DOMAIN objs

\* ------------------------------------------------ create_metadata_instance
\* A faulty variant of the loop: the rows of other objects keep their path.
RECURSIVE PathLoopNoRefresh(_, _, _, _, _)
PathLoopNoRefresh(store, objs, instance, idxs, metadata) ==
    IF idxs = <<>>
    THEN [store |-> store, metadata |-> metadata, status |-> "looped"]
    ELSE LET i == Head(idxs)
             md == store[i]
         IN  IF md._content_type # instance.ct \/ md._object_id # instance.pk
             THEN PathLoopNoRefresh(store, objs, instance, Tail(idxs),
                                    metadata)
             ELSE PathLoopNoRefresh(store, objs, instance, Tail(idxs), i)

\* The loop over the rows that have the instance's path.  metadata is the
\* position of the row found for this instance, 0 for None.
RECURSIVE PathLoop(_, _, _, _, _)
PathLoop(store, objs, instance, idxs, metadata) ==
    IF idxs = <<>>
    THEN [store |-> store, metadata |-> metadata, status |-> "looped"]
    ELSE LET i == Head(idxs)
             md == store[i]
         IN  IF md._content_type # instance.ct \/ md._object_id # instance.pk
             THEN IF ContentObjectIsNone(objs, md)
                  THEN [store |-> store, metadata |-> metadata,
                        status |-> "abandoned"]
                  ELSE IF ~HasGetAbsoluteUrl(md._content_type)
                  THEN [store |-> store, metadata |-> metadata,
                        status |-> "AttributeError"]
                  ELSE PathLoop(
                         [store EXCEPT ![i]._path =
                             objs[<<md._content_type, md._object_id>>]],
                         objs, instance, Tail(idxs), metadata)
             ELSE PathLoop(store, objs, instance, Tail(idxs), i)

\* A faulty variant: an existing row keeps its path.
GetOrCreateKeepPath(store, ct, pk, path) ==
    IF RowsOf(store, ct, pk) = {}
    THEN [store |-> Append(store,
             [_content_type |-> ct, _object_id |-> pk, _path |-> path]),
          status |-> "created"]
    ELSE [store |-> store, status |-> "updated"]

\* A faulty variant: create() in place of get_or_create().
AlwaysCreate(store, ct, pk, path) ==
    [store |-> Append(store,
                 [_content_type |-> ct, _object_id |-> pk, _path |-> path]),
     status |-> "created"]

\* objects.get_or_create(_content_type=..., _object_id=...), then
\* metadata._path = path; metadata.save()
GetOrCreateWithPath(store, ct, pk, path) ==
    LET found == RowsOf(store, ct, pk)
    IN  IF found = {}
        THEN [store |-> Append(store,
                 [_content_type |-> ct, _object_id |-> pk, _path |-> path]),
              status |-> "created"]
        ELSE IF Cardinality(found) > 1
        THEN [store |-> store, status |-> "MultipleObjectsReturned"]
        ELSE LET i == CHOOSE j \in found : TRUE
             IN  [store |-> [store EXCEPT ![i]._path = path],
                  status |-> "updated"]

\* What follows the loop: r is the loop's result on the rows `store`.
\* moved: the loop has replaced the path of a row of another object.
Looked(store, instance, r) ==
    IF r.status # "looped"
    THEN [store |-> r.store, status |-> r.status, moved |-> r.store # store]
    ELSE IF r.metadata # 0
    THEN [store |-> r.store, status |-> "found", moved |-> r.store # store]
    ELSE [store |-> GetOrCreateWithPath(r.store, instance.ct, instance.pk,
                                        instance.url).store,
          status |-> GetOrCreateWithPath(r.store, instance.ct, instance.pk,
                                         instance.url).status,
          moved |-> r.store # store]

\* A faulty variant: the handled mark is not looked at.
IgnoreHandled(store, objs, instance) ==
    IF ~HasGetAbsoluteUrl(instance.ct)
    THEN [store |-> store, status |-> "nourl", moved |-> FALSE]
    ELSE Looked(store, instance,
                PathLoop(store, objs, instance,
                         get_instances(store, instance.url), 0))

\* create_metadata_instance(metadata_class, instance) on the rows `store`,
\* with the tracked objects as stored in `objs`.  The status tells where it
\* returned: at the handled mark ("handled"), for want of get_absolute_url
\* ("nourl"), at a row whose object is gone ("abandoned"), or at the end,
\* with the row of the instance found by its path ("found"), or got by its
\* foreign key and given the path ("updated"), or created ("created").
create_metadata_instance(store, objs, instance) ==
    IF instance.handled
    THEN [store |-> store, status |-> "handled", moved |-> FALSE]
    ELSE IF ~HasGetAbsoluteUrl(instance.ct)
    THEN [store |-> store, status |-> "nourl", moved |-> FALSE]
    ELSE Looked(store, instance,
                PathLoop(store, objs, instance,
                         get_instances(store, instance.url), 0))

_update_callback(store, objs, instance) ==
    create_metadata_instance(store, objs, instance)

\* --------------------------------------------------------- _delete_callback
\* A faulty variant: the filter leaves out the content type.
DeleteByObjectId(store, instance) ==
    SelectSeq(store, LAMBDA md : md._object_id # instance.pk)

_delete_callback(store, instance) ==
    SelectSeq(store,
        LAMBDA md : ~(md._content_type = instance.ct
                      /\ md._object_id = instance.pk))

\* ----------------------------------------------- _handle_redirects_callback
RedirectRow(before, after) ==
    [old_path |-> before, new_path |-> after, site |-> CurrentSite,
     all_subdomains |-> TRUE]

\* A faulty variant: create() in place of get_or_create().
RedirectCreate(reds, row) == reds (+) SetToBag({row})

\* Redirect.objects.get_or_create(...)
RedirectGetOrCreate(reds, row) ==
    IF BagIn(row, reds) THEN reds ELSE reds (+) SetToBag({row})

\* A faulty variant: the Redirect is made without comparing the URLs.
RedirectAlways(reds, objs, instance) ==
    IF ~instance.haspk
    THEN [redirects |-> reds, outcome |-> "nopk"]
    ELSE IF ~HasGetAbsoluteUrl(instance.ct)
            \/ <<instance.ct, instance.pk>> \notin DOMAIN objs
    THEN [redirects |-> reds, outcome |-> "logged"]
    ELSE LET after == instance.url
             before == objs[<<instance.ct, instance.pk>>]
         IN  [redirects |-> RedirectGetOrCreate(reds,
                                RedirectRow(before, after)),
              outcome |-> IF before # after THEN "changed" ELSE "same"]

\* A faulty variant: no try/except around the body, the exception leaves the
\* callback (outcome "raised").
RedirectNoCatch(reds, objs, instance) ==
    IF ~instance.haspk
    THEN [redirects |-> reds, outcome |-> "nopk"]
    ELSE IF ~HasGetAbsoluteUrl(instance.ct)
            \/ <<instance.ct, instance.pk>> \notin DOMAIN objs
    THEN [redirects |-> reds, outcome |-> "raised"]
    ELSE IF objs[<<instance.ct, instance.pk>>] # instance.url
    THEN [redirects |-> RedirectGetOrCreate(reds,
              RedirectRow(objs[<<instance.ct, instance.pk>>], instance.url)),
          outcome |-> "changed"]
    ELSE [redirects |-> reds, outcome |-> "same"]

\* The outcome is "nopk" (returned at once), "logged" (an exception was
\* caught and logged), "same" or "changed".  The exceptions of the body are
\* the AttributeError of an instance without get_absolute_url (after) and of
\* None, which first() returns when no row is stored (before).
_handle_redirects_callback(reds, objs, instance) ==
    IF ~instance.haspk
    THEN [redirects |-> reds, outcome |-> "nopk"]
    ELSE IF ~HasGetAbsoluteUrl(instance.ct)
    THEN [redirects |-> reds, outcome |-> "logged"]
    ELSE IF <<instance.ct, instance.pk>> \notin DOMAIN objs
    THEN [redirects |-> reds, outcome |-> "logged"]
    ELSE LET after == instance.url
             before == objs[<<instance.ct, instance.pk>>]
         IN  IF before # after
             THEN [redirects |-> RedirectGetOrCreate(reds,
                                     RedirectRow(before, after)),
                   outcome |-> "changed"]
             ELSE [redirects |-> reds, outcome |-> "same"]

\* ------------------------------------------------------ get_linked_metadata
\* An entry of the instances list: the stored row (saved) or, when the lookup
\* raises DoesNotExist, a default object that is not saved.
InstanceEntry(store, ct, pk) ==
    [level |-> "modelinstance", saved |-> RowsOf(store, ct, pk) # {}]

ModelEntry(mmd, ct) ==
    [level |-> "model", saved |-> ct \in mmd]

\* A faulty variant: DoesNotExist is not caught.
GetLinkedNoFallback(backends, store, mmd, ct, pk) ==
    IF \/ "modelinstance" \in backends /\ RowsOf(store, ct, pk) = {}
       \/ "model" \in backends /\ ct \notin mmd
    THEN [status |-> "DoesNotExist", instances |-> <<>>]
    ELSE [status |-> "ok",
          instances |->
              (IF "modelinstance" \in backends
               THEN <<InstanceEntry(store, ct, pk)>> ELSE <<>>)
              \o (IF "model" \in backends
                  THEN <<ModelEntry(mmd, ct)>> ELSE <<>>)]

get_linked_metadata(backends, store, mmd, ct, pk) ==
    IF "modelinstance" \in backends /\ Cardinality(RowsOf(store, ct, pk)) > 1
    THEN [status |-> "MultipleObjectsReturned", instances |-> <<>>]
    ELSE [status |-> "ok",
          instances |->
              (IF "modelinstance" \in backends
               THEN <<InstanceEntry(store, ct, pk)>> ELSE <<>>)
              \o (IF "model" \in backends
                  THEN <<ModelEntry(mmd, ct)>> ELSE <<>>)]

\* ======================================================= FormattedMetadata
\* ----------------------------------------------------------------- values
\* A value: None, the empty string, or a non-empty string that tells where it
\* comes from.
Val(kind, i, name) == [kind |-> kind, i |-> i, name |-> name]

None == Val("None", 0, "")

EmptyStr == Val("", 0, "")

Truthy(v) == v.kind \notin {"None", ""}

\* The instances a backend provides are 1..NumInstances, in the order they
\* are produced.
NumInstances == 2
Instances == 1..NumInstances

\* The lookups on a FormattedMetadata stop when its memo would grow beyond
\* MaxMemo entries.
MaxMemo == 4

\* At most MaxHeld values are held by the instances at a time.  A call of
\* _resolve_value reads what the instances hold for one name, and for the
\* name its populate_from refers to when none holds it: NumInstances values
\* at most, and the edits between the calls reach every combination of them.
MaxHeld == NumInstances

\* The value instance i holds for a name, and what it returns for a
\* name it holds nothing for: '' for the odd instances, None for the even.
InstVal(i, name) == Val("value", i, name)

Blank(i) == IF i % 2 = 1 THEN EmptyStr ELSE None

\* ------------------------------------------- the Metadata class (its _meta)
\* _meta.elements, in order, with their populate_from and head.
ElementOrder == <<"title", "heading", "description", "keywords">>

Elements == {ElementOrder[i] : i \in 1..Len(ElementOrder)}

populate_from(name) ==
    CASE name = "title" -> [kind |-> "NotSet"]
      [] name = "heading" -> [kind |-> "name", name |-> "title"]
      [] name = "description" ->
            [kind |-> "Literal", value |-> Val("literal", 0, "description")]
      [] name = "keywords" -> [kind |-> "callable"]

\* Calling the callable populate_from of an element.
CallPopulateFrom(name, arg) == Val("called", 0, arg)

IsHead(name) == name \in {"title", "description"}

\* _meta.groups
GroupMembers == [advanced |-> <<"heading", "keywords">>]

GroupNames == DOMAIN GroupMembers

\* The names looked up: the elements, the groups and a name that is neither.
Names == Elements \cup GroupNames \cup {"nope"}

\* The names a backend instance may hold a value for: the elements, and a
\* name that is no element.
HeldNames == Elements \cup {"nope"}

\* instance._resolve_value(name) of a backend instance: what the instance
\* holds for the name.
InstanceResolveValue(vals, i, name) ==
    IF name \in HeldNames THEN vals[i][name] ELSE None

\* ------------------------------------------- __instances and _resolve_value
\* A faulty variant of the loop: `if value is not None` for `if value`.
RECURSIVE StopAtNotNone(_, _, _, _)
StopAtNotNone(vals, items, name, seen) ==
    IF items = <<>>
    THEN [found |-> FALSE, value |-> None, seen |-> seen]
    ELSE LET value == InstanceResolveValue(vals, Head(items), name)
         IN  IF value # None
             THEN [found |-> TRUE, value |-> value,
                   seen |-> Append(seen, Head(items))]
             ELSE StopAtNotNone(vals, Tail(items), name,
                                Append(seen, Head(items)))

\* for instance in <items>: value = instance._resolve_value(name);
\* if value: return value.  seen: the instances yielded so far.
RECURSIVE ResolveLoop(_, _, _, _)
ResolveLoop(vals, items, name, seen) ==
    IF items = <<>>
    THEN [found |-> FALSE, value |-> None, seen |-> seen]
    ELSE LET value == InstanceResolveValue(vals, Head(items), name)
         IN  IF Truthy(value)
             THEN [found |-> TRUE, value |-> value,
                   seen |-> Append(seen, Head(items))]
             ELSE ResolveLoop(vals, Tail(items), name,
                              Append(seen, Head(items)))

\* __instances(): first the memo, then the original source, each instance
\* drawn from it being appended to the memo before it is yielded.  c is the
\* loop's result over the memo and o over the source.  A generator is
\* consumed by what is drawn from it; a list is iterated from its start every
\* time.
Yielded(f, c, o) ==
    IF c.found
    THEN [found |-> TRUE, value |-> c.value, consulted |-> c.seen, fm |-> f]
    ELSE [found |-> o.found, value |-> o.value,
          consulted |-> c.seen \o o.seen,
          fm |-> [instances_cache |-> f.instances_cache \o o.seen,
                  instances_original |->
                      IF f.instances_original.kind = "generator"
                      THEN [f.instances_original EXCEPT !.items =
                               SubSeq(f.instances_original.items,
                                      Len(o.seen) + 1,
                                      Len(f.instances_original.items))]
                      ELSE f.instances_original]]

\* The loop of _resolve_value over __instances().
ResolveFromInstances(f, vals, name) ==
    Yielded(f, ResolveLoop(vals, f.instances_cache, name, <<>>),
            ResolveLoop(vals, f.instances_original.items, name, <<>>))

\* The result of _resolve_value when the value comes from populate_from:
\* the instances asked by the loop (r) and then by the nested call (q).
Nested(r, q) ==
    [value |-> q.value, consulted |-> r.consulted \o q.consulted,
     fm |-> q.fm]

Returned(r, value) ==
    [value |-> value, consulted |-> r.consulted, fm |-> r.fm]

\* A faulty variant: no default from populate_from.
ResolveWithoutDefault(f, vals, name) ==
    Returned(ResolveFromInstances(f, vals, name),
             ResolveFromInstances(f, vals, name).value)

\* FormattedMetadata._resolve_value(name): the value, the instances asked (in
\* order) and the FormattedMetadata afterwards.  Default is what follows the
\* loop, r being the loop's result.
RECURSIVE _resolve_value(_, _, _)
RECURSIVE Default(_, _, _)
Default(r, vals, name) ==
    IF r.found THEN Returned(r, r.value)
    ELSE IF name \in Elements
    THEN IF populate_from(name).kind = "callable"
         THEN Returned(r, CallPopulateFrom(name, "None"))
         ELSE IF populate_from(name).kind = "Literal"
         THEN Returned(r, populate_from(name).value)
         ELSE IF populate_from(name).kind # "NotSet"
         THEN Nested(r, _resolve_value(r.fm, vals, populate_from(name).name))
         ELSE Returned(r, None)
    ELSE Returned(r, None)

_resolve_value(f, vals, name) ==
    Default(ResolveFromInstances(f, vals, name), vals, name)

\* ------------------------------------------------------ BoundMetadataField
\* BoundMetadataField(field, value): the value is cleaned by the field when it
\* is non-empty and is None otherwise.
BoundMetadataField(field, value) ==
    IF Truthy(value)
    THEN [field |-> field, value |-> value, cleaned |-> TRUE]
    ELSE [field |-> field, value |-> None, cleaned |-> FALSE]

\* str(bound): what the field renders for the value, '' without a value.
\* A text is the sequence of its lines.
EmptyLine == [tag |-> "", content |-> None]

Render(bound) ==
    IF Truthy(bound.value)
    THEN [tag |-> bound.field, content |-> bound.value]
    ELSE EmptyLine

\* '\n'.join(lines): joining one empty line gives the empty text, <<>>.
Join(lines) == IF lines = <<EmptyLine>> THEN <<>> ELSE lines

\* text.strip()
RECURSIVE Strip(_)
Strip(text) ==
    IF text = <<>> THEN <<>>
    ELSE IF Head(text) = EmptyLine THEN Strip(Tail(text))
    ELSE IF text[Len(text)] = EmptyLine
    THEN Strip(SubSeq(text, 1, Len(text) - 1))
    ELSE text

\* -------------------------------------------------------------- the cache
CachePrefix == "djangoseo.Metadata.hexpath"

\* '%s.%s' % (prefix, name)
CacheKey(name) == <<CachePrefix, name>>

StrKey == <<CachePrefix>>

CacheSet(c, key, value) ==
    [k \in DOMAIN c \cup {key} |-> IF k = key THEN value ELSE c[k]]

\* value or '' and value or None, for a value and for a text
OrEmptyStr(v) == IF Truthy(v) THEN v ELSE EmptyStr

OrNone(v) == IF Truthy(v) THEN v ELSE None

NoText == <<[tag |-> "None", content |-> None]>>

TextOrNone(text) == IF text = <<>> THEN NoText ELSE text

\* ------------------------------------------------------------ __getattr__
\* The members of a group, resolved and rendered one after the other.
AddLine(g, member, r) ==
    [lines |-> Append(g.lines,
                      Render(BoundMetadataField(member, r.value))),
     consulted |-> g.consulted \o r.consulted,
     fm |-> r.fm]

GroupLines(f, vals, members) ==
    LET G[k \in 0..Len(members)] ==
            IF k = 0
            THEN [lines |-> <<>>, consulted |-> <<>>, fm |-> f]
            ELSE AddLine(G[k - 1], members[k],
                         _resolve_value(G[k - 1].fm, vals, members[k]))
    IN  G[Len(members)]

\* '\n'.join(...).strip() of the lines of a group
GroupText(g) == Strip(Join(g.lines))

\* A group that is not in the cache: g is its lines as resolved.
GroupAccess(g, c, cached, key) ==
    [ret |-> TextOrNone(GroupText(g)), consulted |-> g.consulted,
     fm |-> g.fm,
     cache |-> IF cached THEN CacheSet(c, key, GroupText(g)) ELSE c]

\* An element that is not in the cache: r is what _resolve_value gave.
ElementAccess(r, c, cached, key, name) ==
    [ret |-> BoundMetadataField(name, r.value),
     consulted |-> r.consulted, fm |-> r.fm,
     cache |-> IF cached THEN CacheSet(c, key, OrEmptyStr(r.value)) ELSE c]

\* A faulty variant: the cache is not read, and is written on every access.
GetAttrOverwrite(f, vals, c, cached, name) ==
    IF name \in GroupNames
    THEN GroupAccess(GroupLines(f, vals, GroupMembers[name]),
                     c, cached, CacheKey(name))
    ELSE IF name \in Elements
    THEN ElementAccess(_resolve_value(f, vals, name),
                       c, cached, CacheKey(name), name)
    ELSE [ret |-> "AttributeError", consulted |-> <<>>, fm |-> f,
          cache |-> c]

\* FormattedMetadata.__getattr__(name), `cached` telling whether there is a
\* cache prefix: what it returns, the instances asked, and the
\* FormattedMetadata and the cache afterwards.
__getattr__(f, vals, c, cached, name) ==
    IF name \in GroupNames
    THEN IF cached /\ CacheKey(name) \in DOMAIN c
         THEN [ret |-> TextOrNone(c[CacheKey(name)]), consulted |-> <<>>,
               fm |-> f, cache |-> c]
         ELSE GroupAccess(GroupLines(f, vals, GroupMembers[name]),
                          c, cached, CacheKey(name))
    ELSE IF name \in Elements
    THEN IF cached /\ CacheKey(name) \in DOMAIN c
         THEN [ret |-> BoundMetadataField(name, OrNone(c[CacheKey(name)])),
               consulted |-> <<>>, fm |-> f, cache |-> c]
         ELSE ElementAccess(_resolve_value(f, vals, name),
                            c, cached, CacheKey(name), name)
    ELSE [ret |-> "AttributeError", consulted |-> <<>>, fm |-> f,
          cache |-> c]

\* ---------------------------------------------------------------- __str__
\* six.text_type(getattr(self, f)) for the head elements, in order.
AddHead(h, a) ==
    [lines |-> Append(h.lines, Render(a.ret)),
     consulted |-> h.consulted \o a.consulted,
     fm |-> a.fm, cache |-> a.cache]

HeadLines(f, vals, c, cached, names) ==
    LET H[k \in 0..Len(names)] ==
            IF k = 0
            THEN [lines |-> <<>>, consulted |-> <<>>, fm |-> f, cache |-> c]
            ELSE AddHead(H[k - 1],
                         __getattr__(H[k - 1].fm, vals, H[k - 1].cache,
                                     cached, names[k]))
    IN  H[Len(names)]

\* The text of the head elements, stored in the cache when there is one.
HeadText(h, cached) ==
    [ret |-> Join(h.lines), consulted |-> h.consulted, fm |-> h.fm,
     cache |-> IF cached THEN CacheSet(h.cache, StrKey, Join(h.lines))
               ELSE h.cache]

__str__(f, vals, c, cached) ==
    IF cached /\ StrKey \in DOMAIN c
    THEN [ret |-> c[StrKey], consulted |-> <<>>, fm |-> f, cache |-> c]
    ELSE HeadText(HeadLines(f, vals, c, cached,
                            SelectSeq(ElementOrder, IsHead)), cached)

\* ---------------------------------------------------------------- actions
\* FormattedMetadata.__init__: the memo is empty.  get_metadata passes the
\* generator of _get_instances, get_linked_metadata passes a list.
FormattedMetadata(kind) ==
    [instances_original |->
         [kind |-> kind, items |-> [i \in Instances |-> i]],
     instances_cache |-> <<>>]

AllBlank == [i \in Instances |-> [n \in HeldNames |-> Blank(i)]]

\* The values outside FormattedMetadata's specifications.
FmtIdle ==
    /\ use_cache = FALSE
    /\ ivals = AllBlank
    /\ fm = FormattedMetadata("generator")
    /\ cache = <<>>

WithinMemo(f) == Len(f.instances_cache) <= MaxMemo

NewFormattedMetadata(kind) ==
    /\ fm' = FormattedMetadata(kind)
    /\ last' = [op |-> "__init__"]
    /\ UNCHANGED <<use_cache, ivals, cache>>
    /\ UNCHANGED syncVars

ResolveValue(name) ==
    \E r \in {_resolve_value(fm, ivals, name)} :
        /\ WithinMemo(r.fm)
        /\ fm' = r.fm
        /\ last' = [op |-> "_resolve_value", name |-> name, ret |-> r.value]
        /\ UNCHANGED <<use_cache, ivals, cache>>
        /\ UNCHANGED syncVars

GetAttr(name) ==
    \E a \in {__getattr__(fm, ivals, cache, use_cache, name)} :
        /\ WithinMemo(a.fm)
        /\ fm' = a.fm
        /\ cache' = a.cache
        /\ last' = [op |-> "__getattr__", name |-> name, ret |-> a.ret]
        /\ UNCHANGED <<use_cache, ivals>>
        /\ UNCHANGED syncVars

Str ==
    \E a \in {__str__(fm, ivals, cache, use_cache)} :
        /\ WithinMemo(a.fm)
        /\ fm' = a.fm
        /\ cache' = a.cache
        /\ last' = [op |-> "__str__", ret |-> a.ret]
        /\ UNCHANGED <<use_cache, ivals>>
        /\ UNCHANGED syncVars

\* The (instance, name) pairs for which the instance holds a value.
Held(vals) ==
    {p \in Instances \X HeldNames : vals[p[1]][p[2]] # Blank(p[1])}

\* The metadata is edited: an instance gets or loses its value for a name.
ChangeValue(i, name) ==
    /\ ivals' = [ivals EXCEPT ![i][name] =
                    IF ivals[i][name] = Blank(i) THEN InstVal(i, name)
                    ELSE Blank(i)]
    /\ Cardinality(Held(ivals')) <= MaxHeld
    /\ last' = [op |-> "edit"]
    /\ UNCHANGED <<use_cache, fm, cache>>
    /\ UNCHANGED syncVars

\* ------------------------------------------------------------------ state
Overlap(objs) ==
    \E o1, o2 \in DOMAIN objs :
        /\ o1 # o2
        /\ HasGetAbsoluteUrl(o1[1]) /\ HasGetAbsoluteUrl(o2[1])
        /\ objs[o1] = objs[o2]

NoOp == [op |-> "none"]

\* create_metadata_instance ran to its end.
Completed == {"found", "updated", "created"}

Put(f, k, v) == [x \in DOMAIN f \cup {k} |-> IF x = k THEN v ELSE f[x]]

Drop(f, k) == [x \in DOMAIN f \ {k} |-> f[x]]

InitSync(useRedirects, backendChoices) ==
    /\ settings \in {[SEO_USE_REDIRECTS |-> useRedirects, backends |-> b] :
                        b \in backendChoices}
    /\ db = <<>>
    /\ mdstore = <<>>
    /\ modelmd = IF "model" \in settings.backends THEN {"page"} ELSE {}
    /\ redirects = EmptyBag
    /\ handledSaves = {}
    /\ last = NoOp
    /\ FmtIdle

\* register_signals: which callbacks are connected.
UpdateConnected == "modelinstance" \in settings.backends
RedirectsConnected == settings.SEO_USE_REDIRECTS

\* Model.save(): the pre_save callback, the write, the post_save callback.
\* haspk is false for a new object that gets its primary key from the write.
\* An exception that leaves the pre_save callback leaves save() before the
\* write.  made: the pre_save callback has added a Redirect row.
Save(o, url, handled, haspk) ==
    /\ o \in DOMAIN db => haspk
    /\ \E instance \in {[ct |-> o[1], pk |-> o[2], url |-> url,
                          handled |-> handled, haspk |-> haspk]} :
       \E pre \in {IF RedirectsConnected
                    THEN _handle_redirects_callback(redirects, db, instance)
                    ELSE [redirects |-> redirects, outcome |-> "off"]} :
       IF pre.outcome = "raised"
       THEN /\ UNCHANGED <<redirects, db, mdstore, handledSaves>>
            /\ last' = [op |-> "save", pre |-> "raised", post |-> "unsent",
                        moved |-> FALSE, made |-> FALSE]
       ELSE
       \E post \in {IF UpdateConnected
                     THEN _update_callback(mdstore, Put(db, o, url), instance)
                     ELSE [store |-> mdstore, status |-> "off",
                           moved |-> FALSE]} :
           /\ redirects' = pre.redirects
           /\ db' = Put(db, o, url)
           /\ mdstore' = post.store
           /\ handledSaves' =
                  IF post.status = "handled" /\ HasGetAbsoluteUrl(o[1])
                  THEN handledSaves \cup {o}
                  ELSE handledSaves \ {o}
           /\ last' = [op |-> "save", pre |-> pre.outcome,
                       post |-> post.status, moved |-> post.moved,
                       made |-> pre.redirects # redirects]
    /\ UNCHANGED <<settings, modelmd>>
    /\ UNCHANGED fmtVars

\* Model.delete(): the pre_delete callback, then the row is deleted.
Delete(o) ==
    /\ o \in DOMAIN db
    /\ LET instance == [ct |-> o[1], pk |-> o[2]]
       IN  mdstore' = IF UpdateConnected
                      THEN _delete_callback(mdstore, instance) ELSE mdstore
    /\ db' = Drop(db, o)
    /\ handledSaves' = handledSaves \ {o}
    /\ last' = [op |-> "delete"]
    /\ UNCHANGED <<settings, modelmd, redirects>>
    /\ UNCHANGED fmtVars

GetLinked(o) ==
    /\ last' = [op |-> "get_linked_metadata",
                result |-> get_linked_metadata(settings.backends, mdstore,
                                               modelmd, o[1], o[2])]
    /\ UNCHANGED syncVars
    /\ UNCHANGED fmtVars

SaveAny ==
    \E o \in Objects : \E url \in FieldValues(o[1]) :
        \E handled \in BOOLEAN : \E haspk \in BOOLEAN :
            Save(o, url, handled, haspk)

DeleteAny == \E o \in Objects : Delete(o)

GetLinkedAny == \E o \in Objects : GetLinked(o)

NextSync == SaveAny \/ DeleteAny \/ GetLinkedAny

Init == InitSync(FALSE, {{"modelinstance", "model"}})

Spec == Init /\ [][NextSync]_vars

InitRedirects == InitSync(TRUE, {{"model"}, {}})

SpecRedirects == InitRedirects /\ [][NextSync]_vars

\* The saves that keep the URLs of the tracked objects pairwise distinct.
SaveDistinct ==
    \E o \in Objects : \E url \in DistinctFieldValues(o[1]) :
        \E handled \in BOOLEAN : \E haspk \in BOOLEAN :
            Save(o, url, handled, haspk) /\ ~Overlap(Put(db, o, url))

NextDistinct == SaveDistinct \/ DeleteAny \/ GetLinkedAny

SpecDistinct == Init /\ [][NextDistinct]_vars

\* --------------------------------------- FormattedMetadata's specifications
SyncIdle ==
    /\ settings = [SEO_USE_REDIRECTS |-> FALSE, backends |-> {}]
    /\ db = <<>>
    /\ mdstore = <<>>
    /\ modelmd = {}
    /\ redirects = EmptyBag
    /\ handledSaves = {}

\* The sets of at most MaxHeld (instance, name) pairs.
AtMostHeld ==
    {held \in SUBSET (Instances \X HeldNames) : Cardinality(held) <= MaxHeld}

\* The instances hold a value for the (instance, name) pairs in `held`.
Holding(held) ==
    [i \in Instances |->
        [n \in HeldNames |->
            IF <<i, n>> \in held THEN InstVal(i, n) ELSE Blank(i)]]

NewAny == \E kind \in {"generator", "list"} : NewFormattedMetadata(kind)

ResolveAny == \E name \in Names : ResolveValue(name)

GetAttrAny == \E name \in Names : GetAttr(name)

EditAny == \E i \in Instances : \E name \in HeldNames : ChangeValue(i, name)

\* The resolution chain without a cache, over a generator or a list, the
\* instances holding any values.
InitFmt ==
    /\ SyncIdle
    /\ use_cache = FALSE
    /\ ivals \in {Holding(held) : held \in AtMostHeld}
    /\ \E kind \in {"generator", "list"} : fm = FormattedMetadata(kind)
    /\ cache = <<>>
    /\ last = NoOp

NextFmt == NewAny \/ ResolveAny \/ GetAttrAny \/ Str \/ EditAny

SpecFmt == InitFmt /\ [][NextFmt]_vars

\* The elements that are edited while the cache is in use.
CacheEdited == {"title"}

NewFromGenerator == NewFormattedMetadata("generator")

EditCached ==
    \E i \in Instances : \E name \in CacheEdited : ChangeValue(i, name)

\* With the cache: requests through get_metadata, while the title is edited.
InitCache ==
    /\ SyncIdle
    /\ use_cache = TRUE
    /\ ivals = AllBlank
    /\ fm = FormattedMetadata("generator")
    /\ cache = <<>>
    /\ last = NoOp

NextCache == NewFromGenerator \/ ResolveAny \/ GetAttrAny \/ Str \/ EditCached

SpecCache == InitCache /\ [][NextCache]_vars

\* =================================================================== claims
LinkedTo(md) == <<md._content_type, md._object_id>>

\* The step is a save of object o, with the handled mark and with a primary
\* key as told; the URL saved is db'[o].  (The other conjuncts follow from
\* the last one; they let it be decided without evaluating the callbacks.)
\* The formulas about a save have the form "what holds of the step, or the
\* step is not that save".
SaveStep(o, handled, haspk) ==
    /\ last'.op = "save"
    /\ o \in DOMAIN db'
    /\ db' = Put(db, o, db'[o])
    /\ last'.post = "handled" => handled
    /\ last'.pre = "nopk" => ~haspk
    /\ Save(o, db'[o], handled, haspk)

\* The object has a metadata row linked to it whose _path is its current URL.
RowInStep(o) ==
    \E i \in RowsOf(mdstore, o[1], o[2]) : mdstore[i]._path = db[o]

NoRowOfDeleted ==
    \A i \in 1..Len(mdstore) : LinkedTo(mdstore[i]) \in DOMAIN db

\* C2, as stated: after any sequence of post_save and pre_delete events every
\* stored tracked object that defines get_absolute_url has a metadata row
\* linked to it with its current URL as _path, and no row is linked to a
\* deleted object.
C2_LockstepAsStated ==
    /\ \A o \in DOMAIN db : HasGetAbsoluteUrl(o[1]) => RowInStep(o)
    /\ NoRowOfDeleted

\* C2, amended: the same for every stored tracked object whose latest
\* post_save was not marked as handled; no row is linked to a deleted object.
C2_Lockstep ==
    /\ \A o \in DOMAIN db \ handledSaves :
           HasGetAbsoluteUrl(o[1]) => RowInStep(o)
    /\ NoRowOfDeleted

\* An object was deleted while the others keep a row in step, one of them
\* after a change of URL that followed a handled save.
C2_Witness ==
    /\ last.op = "delete"
    /\ <<"page", 1>> \notin DOMAIN db
    /\ <<"page", 2>> \in DOMAIN db /\ RowInStep(<<"page", 2>>)
    /\ <<"product", 1>> \in DOMAIN db /\ <<"product", 1>> \in handledSaves
    /\ ~RowInStep(<<"product", 1>>)
    /\ RowsOf(mdstore, "product", 1) # {}

\* C3: on pre_save of a stored tracked instance that has a primary key, the
\* Redirect row (old URL, new URL, current site, all_subdomains) exists
\* afterwards if and only if the two URLs differ, and no other Redirect row
\* appears or disappears; when the URLs are equal or the instance has no
\* primary key yet, the Redirect rows are unchanged.
C3_RedirectIffUrlChanges ==
    [][last'.op = "save" =>
         \A o \in DOMAIN db' : \A handled \in BOOLEAN : \A haspk \in BOOLEAN :
           \/ /\ (haspk /\ o \in DOMAIN db /\ HasGetAbsoluteUrl(o[1])) =>
                   /\ BagIn(RedirectRow(db[o], db'[o]), redirects')
                          <=> db[o] # db'[o]
                   /\ BagToSet(redirects') \subseteq
                          BagToSet(redirects) \cup {RedirectRow(db[o], db'[o])}
                   /\ BagToSet(redirects) \subseteq BagToSet(redirects')
                   /\ db[o] = db'[o] => redirects' = redirects
              /\ ~haspk => redirects' = redirects
           \/ ~SaveStep(o, handled, haspk)]_vars

\* A save has just changed a URL for which no Redirect existed before, after
\* another redirect had been made.
C3_Witness ==
    /\ last.op = "save" /\ last.pre = "changed"
    /\ Cardinality(BagToSet(redirects)) >= 2

\* C5: get_linked_metadata(obj) does not fail when a metadata row is missing:
\* each installed backend contributes one entry, the stored row when there is
\* one and an unsaved default otherwise, the instance-level entry before the
\* model-level entry, and the stored rows are unchanged.
C5_LinkedFallsBackToDefaults ==
    [][last'.op = "get_linked_metadata" =>
       \A o \in Objects :
         GetLinked(o) =>
           LET res == last'.result
               mi == "modelinstance" \in settings.backends
               m == "model" \in settings.backends
               n == (IF mi THEN 1 ELSE 0) + (IF m THEN 1 ELSE 0)
           IN  /\ res.status = "ok"
               /\ Len(res.instances) = n
               /\ mi => res.instances[1] =
                          [level |-> "modelinstance",
                           saved |-> (\E i \in 1..Len(mdstore) :
                                         LinkedTo(mdstore[i]) = o)]
               /\ m => res.instances[n] =
                          [level |-> "model", saved |-> o[1] \in modelmd]
               /\ mdstore' = mdstore /\ modelmd' = modelmd]_vars

\* get_linked_metadata has returned the two defaults, instance level first,
\* for a stored object that has neither row, while other rows are stored.
C5_Witness ==
    /\ last.op = "get_linked_metadata"
    /\ last.result.status = "ok"
    /\ last.result.instances =
           <<[level |-> "modelinstance", saved |-> FALSE],
             [level |-> "model", saved |-> FALSE]>>
    /\ <<"product", 1>> \in DOMAIN db
    /\ RowsOf(mdstore, "product", 1) = {}
    /\ \A o \in DOMAIN db : o[1] = "page" => RowsOf(mdstore, o[1], o[2]) # {}
    /\ mdstore # <<>>

\* C6: when a tracked instance is deleted, the pre_delete callback removes
\* every metadata row whose (content type, object id) is the instance's and
\* leaves the rows linked to any other object as they were.
C6_DeleteRemovesOnlyOwnRows ==
    [][last'.op = "delete" =>
       \A o \in DOMAIN db \ DOMAIN db' :
         Delete(o) =>
           /\ RowsOf(mdstore', o[1], o[2]) = {}
           /\ mdstore' = SelectSeq(mdstore, LAMBDA md : LinkedTo(md) # o)]_vars

\* page 1 was deleted and its row is gone; the rows of the object with the
\* same primary key and of the object of the same model are still there.
C6_Witness ==
    /\ last.op = "delete"
    /\ <<"page", 1>> \notin DOMAIN db
    /\ RowsOf(mdstore, "page", 1) = {}
    /\ RowsOf(mdstore, "product", 1) # {}
    /\ RowsOf(mdstore, "page", 2) # {}

NoDoublePath ==
    \A i, j \in 1..Len(mdstore) : i # j => mdstore[i]._path # mdstore[j]._path

\* After create_metadata_instance has run to completion for an instance with
\* URL p, a row linked to a different object has _path = p only if p is that
\* object's own current URL.
PathFreedOnCompletion ==
    [][(last'.op = "save" /\ last'.post \in Completed) =>
         \A o \in DOMAIN db' : \A handled \in BOOLEAN : \A haspk \in BOOLEAN :
           \/ \A i \in 1..Len(mdstore') :
                (mdstore'[i]._path = db'[o] /\ LinkedTo(mdstore'[i]) # o) =>
                    /\ LinkedTo(mdstore'[i]) \in DOMAIN db'
                    /\ db'[LinkedTo(mdstore'[i])] = db'[o]
           \/ ~SaveStep(o, handled, haspk)]_vars

C8_NoDoubleForeignKey ==
    \A i, j \in 1..Len(mdstore) :
        i # j => LinkedTo(mdstore[i]) # LinkedTo(mdstore[j])

\* An object that already had a row was saved again under a new URL, next to
\* the rows of two other objects: its row was got by its foreign key.
C8_Witness ==
    /\ last.op = "save" /\ last.post = "updated"
    /\ Len(mdstore) = 3

\* C10: create_metadata_instance leaves the metadata rows as they are when
\* the instance is marked as handled or does not define get_absolute_url.
C10_HandledOrNoUrlIsNoOp ==
    [][last'.op = "save" =>
         \A o \in DOMAIN db' : \A handled \in BOOLEAN : \A haspk \in BOOLEAN :
           \/ mdstore' = mdstore
           \/ ~(handled \/ ~HasGetAbsoluteUrl(o[1]))
           \/ ~SaveStep(o, handled, haspk)]_vars

\* An object without get_absolute_url was saved while a handled save has left
\* another object's row out of step and a third object without a row.
C10_Witness ==
    /\ last.op = "save" /\ last.post = "nourl"
    /\ mdstore # <<>>
    /\ \E o \in handledSaves : RowsOf(mdstore, o[1], o[2]) = {}
    /\ \E o \in handledSaves :
          RowsOf(mdstore, o[1], o[2]) # {} /\ ~RowInStep(o)

\* The steps of FormattedMetadata, told by what they leave in `last`.
ResolveStep(name) ==
    /\ last'.op = "_resolve_value"
    /\ last'.name = name
    /\ ResolveValue(name)

GetAttrStep(name) ==
    /\ last'.op = "__getattr__"
    /\ last'.name = name
    /\ GetAttr(name)

\* The first instance, in the order they are produced, whose own
\* _resolve_value(name) is non-empty; 0 when there is none.
FirstTruthy(vals, name) ==
    LET hits == {i \in Instances : Truthy(InstanceResolveValue(vals, i, name))}
    IN  IF hits = {} THEN 0
        ELSE CHOOSE i \in hits : \A j \in hits : i <= j

\* C1: _resolve_value(name) returns the value of the first instance, in the
\* order the instances are produced, whose own _resolve_value(name) is
\* non-empty: no later instance is asked, every earlier one is asked before
\* it, and an empty value of an earlier instance does not hide it.
C1_FirstNonEmptyInstanceWins ==
    [][\A name \in Names :
         ResolveStep(name) =>
           LET k == FirstTruthy(ivals, name)
               asked == _resolve_value(fm, ivals, name).consulted
           IN  k # 0 =>
                 /\ last'.ret = InstanceResolveValue(ivals, k, name)
                 /\ \A j \in 1..Len(asked) : asked[j] <= k
                 /\ asked[Len(asked)] = k
                 /\ \A j \in 1..Len(asked) : \A i \in 1..(asked[j] - 1) :
                       \E h \in 1..(j - 1) : asked[h] = i]_vars

\* The heading came from the second instance, the first one holding the
\* empty string for it.
C1_Witness ==
    /\ last.op = "_resolve_value" /\ last.name = "heading"
    /\ ivals[1]["heading"] = EmptyStr
    /\ last.ret = InstVal(2, "heading")
    /\ fm.instances_cache = <<1, 2>>

\* What populate_from yields for a name when no instance has a value for it.
RECURSIVE Fallback(_, _)
Fallback(vals, name) ==
    IF name \notin Elements THEN None
    ELSE LET pf == populate_from(name)
         IN  CASE pf.kind = "callable" -> CallPopulateFrom(name, "None")
               [] pf.kind = "Literal" -> pf.value
               [] pf.kind = "NotSet" -> None
               [] pf.kind = "name" ->
                    IF FirstTruthy(vals, pf.name) # 0
                    THEN InstanceResolveValue(vals,
                             FirstTruthy(vals, pf.name), pf.name)
                    ELSE Fallback(vals, pf.name)

\* C9: when no instance yields a non-empty value for the name, _resolve_value
\* returns what the element's populate_from gives: the result of calling a
\* callable with None, the value of a Literal, the resolved value of the
\* field a name refers to, None for NotSet; and None for a name that is not
\* an element.
C9_PopulateFromFallback ==
    [][\A name \in Names :
         (ResolveStep(name) /\ FirstTruthy(ivals, name) = 0) =>
             last'.ret = Fallback(ivals, name)]_vars

\* No instance holds a heading; the heading resolved to the title, which only
\* the second instance holds.
C9_Witness ==
    /\ last.op = "_resolve_value" /\ last.name = "heading"
    /\ FirstTruthy(ivals, "heading") = 0
    /\ ivals[1]["title"] = EmptyStr
    /\ last.ret = InstVal(2, "title")

\* What __getattr__ returns for an element or a group from the value the
\* cache holds for it.
FromCache(name, stored) ==
    IF name \in GroupNames THEN TextOrNone(stored)
    ELSE BoundMetadataField(name, OrNone(stored))

\* C4: with caching enabled, the first access of an element or group through
\* __getattr__ resolves the value from the instances and stores it under the
\* key of the name; a later access returns the stored value and asks no
\* instance, whatever the instances hold by then; and no step removes or
\* changes an entry of the cache.
C4_ReadThroughCache ==
    [][/\ \A name \in Elements \cup GroupNames :
            (use_cache /\ GetAttrStep(name)) =>
              LET key == CacheKey(name)
                  a == __getattr__(fm, ivals, cache, use_cache, name)
              IN  IF key \in DOMAIN cache
                  THEN /\ last'.ret = FromCache(name, cache[key])
                       /\ a.consulted = <<>>
                       /\ fm' = fm
                  ELSE /\ key \in DOMAIN cache'
                       /\ last'.ret = FromCache(name, cache'[key])
                       /\ name \in Elements =>
                            cache'[key] = OrEmptyStr(
                                _resolve_value(fm, ivals, name).value)
       /\ \A key \in DOMAIN cache :
            key \in DOMAIN cache' /\ cache'[key] = cache[key]]_vars

\* The title was read from the cache, which holds the value the first
\* instance had when it was first read and has lost since.
C4_Witness ==
    /\ last.op = "__getattr__" /\ last.name = "title"
    /\ CacheKey("title") \in DOMAIN cache
    /\ cache[CacheKey("title")] = InstVal(1, "title")
    /\ ivals[1]["title"] = EmptyStr
    /\ last.ret = BoundMetadataField("title", InstVal(1, "title"))
    /\ fm.instances_cache = <<>>

\* C12: the redirect pre_save callback does not let a failure reach the save
\* that triggered it: when the instance has a primary key and no stored row,
\* or does not define get_absolute_url, the exception is caught and logged,
\* the callback returns, the save goes on to write the object, and no
\* Redirect row is created.
C12_RedirectFailureIsLogged ==
    [][last'.op = "save" =>
         \A o \in Objects : \A url \in FieldValues(o[1]) :
           \A handled \in BOOLEAN :
             \/ /\ last'.pre = "logged"
                /\ redirects' = redirects
                /\ o \in DOMAIN db' /\ db'[o] = url
             \/ ~(o \notin DOMAIN db \/ ~HasGetAbsoluteUrl(o[1]))
             \/ ~Save(o, url, handled, TRUE)]_vars

\* An instance that came with a primary key and had no stored row was saved:
\* the failure was logged, the object is stored, and the Redirect made
\* earlier is the only one.
C12_Witness ==
    /\ last.op = "save" /\ last.pre = "logged" /\ ~last.made
    /\ <<"product", 1>> \in DOMAIN db
    /\ <<"nopath", 1>> \notin DOMAIN db
    /\ BagCardinality(redirects) = 1

\* C13: after any sequence of saves there is at most one Redirect row for
\* each (old_path, new_path, site, all_subdomains): a URL change that is
\* repeated adds no second row.
C13_OneRedirectPerChange ==
    \A row \in BagToSet(redirects) : CopiesIn(row, redirects) = 1

\* A save has changed a URL the way an earlier save did and has added no
\* row: the Redirect of that change is there once.
C13_Witness ==
    /\ last.op = "save" /\ last.pre = "changed" /\ ~last.made
    /\ redirects # EmptyBag
    /\ C13_OneRedirectPerChange

\* C11: FormattedMetadata memoises its instance source, a generator or a
\* list alike: over any number of lookups each instance is drawn from the
\* source at most once, so the memo holds the instances once each in their
\* original order and is never longer than their number, and an iteration
\* of a lookup yields each instance at most once, in that order.
C11_MemoisedAsStated ==
    [][/\ Len(fm'.instances_cache) <= NumInstances
       /\ \A j \in 1..Len(fm'.instances_cache) : fm'.instances_cache[j] = j
       /\ \A name \in Names :
             ResolveStep(name) =>
               LET asked == ResolveFromInstances(fm, ivals, name).consulted
               IN  \A j \in 1..Len(asked) : asked[j] = j]_vars

====
